---- MODULE Spec2Model ----
(***************************************************************************)
(* A model of src/scripts/main.js: the theme store (ThemeManager) and the  *)
(* service catalog loader and renderer (ServicesManager), with the         *)
(* provider-message bubbles and their 400ms timers.                        *)
(***************************************************************************)
EXTENDS Integers, Sequences, FiniteSets, TLC

VARIABLES
    \* ---- environment of the theme store
    stored,        \* localStorage['preferred-theme'], NULL when the key is absent
    canRead,       \* FALSE: localStorage.getItem throws
    canWrite,      \* FALSE: localStorage.setItem throws
    osDark,        \* matchMedia('(prefers-color-scheme: dark)').matches
    btnPresent,    \* the theme controls of the document (ids among ThemeButtons)
    \* ---- ThemeManager
    tmPc,          \* "new" before the constructor, "ready" after
    currentTheme,  \* this.currentTheme
    dataTheme,     \* document.body's data-theme attribute
    btnActive,     \* the theme controls carrying the 'active' class
    themeThrew,    \* an exception has left a method of the ThemeManager
    failedSinceWrite, \* a read or a write of the preference has thrown and
                   \* no write has succeeded since
    \* ---- environment of the ServicesManager
    response,      \* what the fetch of ./assets/data/services.json settles to
    gridPresent,   \* the document has the #servicesGrid element
    loadingPresent,\* the document has the #loading element
    \* ---- ServicesManager
    smPc,          \* "new" before the constructor, "loading" while the fetch
                   \* is pending, "done" once init() has run to its end
    services,      \* this.services
    grid,          \* the children of #servicesGrid
    loadingHidden, \* #loading carries the 'hidden' class
    loadingDisplay,\* #loading's style.display
    initRejected,  \* the promise init() returned is rejected
    handlers,      \* addProviderBubbleHandlers has installed its listeners
    activeMessage, \* the closure's activeMessage: 0 (null) or a card's number
    msgClasses,    \* the classes of each card's .provider-message
    timers400,     \* the pending 400ms timers, in the order they were set
    timers300,     \* the pending 300ms timers, in the order they were set
    drawers,       \* for each card with a sub-item dropdown: its drawer
    \* ---- the most recent click the document's listeners received was one
    \* ---- outside every bubble and provider image
    clickedOutside,
    \* ---- the last operation that ran, with its argument
    lastOp

tvars == <<stored, canRead, canWrite, osDark, btnPresent, tmPc, currentTheme,
           dataTheme, btnActive, themeThrew, failedSinceWrite>>

svars == <<response, gridPresent, loadingPresent, smPc, services, grid,
           loadingHidden, loadingDisplay, initRejected, handlers,
           activeMessage, msgClasses, timers400, timers300, drawers,
           clickedOutside>>

vars == <<stored, canRead, canWrite, osDark, btnPresent, tmPc, currentTheme,
          dataTheme, btnActive, themeThrew, failedSinceWrite, response,
          gridPresent, loadingPresent, smPc, services, grid, loadingHidden,
          loadingDisplay, initRejected, handlers, activeMessage, msgClasses,
          timers400, timers300, drawers, clickedOutside, lastOp>>

\* JavaScript's null / undefined / an absent attribute.
NULL == "<null>"

Op(name, arg, idx) == [op |-> name, arg |-> arg, idx |-> idx]

(***************************************************************************)
(* ThemeManager                                                            *)
(***************************************************************************)

\* What may lie under the preference key when the page starts: nothing, a
\* theme of the enumeration, or a theme of the earlier, wider enumeration.
StoredValues == {NULL, "light", "dark", "contrast-dark"}

\* The arguments setTheme is called with.
ThemeInputs == {"light", "dark", "contrast-dark", "auto"}

ThemeButtons == {"lightMode", "darkMode"}

\* JavaScript truthiness of a string-or-null value.
Truthy(v) == v \notin {NULL, ""}

\* getSystemTheme(): line 11.
GetSystemTheme == IF osDark THEN "dark" ELSE "light"

\* getStoredTheme(): a throwing read yields null.
GetStoredTheme == IF canRead THEN stored ELSE NULL

\* A variant of SetStoredTheme that never writes the preference.
SetStoredThemeNever(theme) == stored

\* setStoredTheme(theme): the value of the store afterwards; a throwing write
\* is swallowed.
SetStoredTheme(theme) == IF canWrite THEN theme ELSE stored

\* Whether an exception of localStorage.getItem leaves getStoredTheme(): its
\* catch returns null instead.
ReadEscapes == FALSE

\* A variant of WriteEscapes without the try/catch of setStoredTheme.
WriteEscapesUncaught == ~canWrite

\* Whether an exception of localStorage.setItem leaves setStoredTheme(theme):
\* its catch swallows it.
WriteEscapes == FALSE

\* A variant of InitialTheme that asks the OS first.
InitialThemeSystemFirst == GetSystemTheme

\* The constructor's  getStoredTheme() || getSystemTheme().
InitialTheme == IF Truthy(GetStoredTheme) THEN GetStoredTheme ELSE GetSystemTheme

\* A variant of ValidTheme with the enumeration of the earlier revision.
ValidThemeLegacy(theme) ==
    theme \in {"light", "dark", "contrast-light", "contrast-dark"}

\* setTheme's membership test  ['light', 'dark'].includes(theme).
ValidTheme(theme) == theme \in {"light", "dark"}

\* themeMap[theme]: the id of the control of a theme, NULL (undefined) for a
\* theme the map does not hold.
ThemeMap(theme) ==
    CASE theme = "light" -> "lightMode"
      [] theme = "dark"  -> "darkMode"
      [] OTHER           -> NULL

\* updateActiveButton() with this.currentTheme = theme: the controls carrying
\* 'active' afterwards. Every .theme-btn loses it, the mapped control, when
\* the document has it, gains it.
UpdateActiveButton(theme) ==
    IF ThemeMap(theme) \in btnPresent THEN {ThemeMap(theme)} ELSE {}

\* A variant of NoStoredTheme: the listener follows the OS whatever is stored.
NoStoredThemeAlways == TRUE

\* The listener's test  !this.getStoredTheme(): no preference is read.
NoStoredTheme == ~Truthy(GetStoredTheme)

\* e.matches ? 'dark' : 'light'.
SchemeTheme(matches) == IF matches THEN "dark" ELSE "light"

\* new ThemeManager(): constructor, initializeTheme.
ThemeManagerNew ==
    /\ tmPc = "new"
    /\ IF ReadEscapes
       THEN \* the constructor is left at line 4
            /\ tmPc' = "threw"
            /\ themeThrew' = TRUE
            /\ UNCHANGED <<currentTheme, dataTheme, btnActive>>
       ELSE /\ tmPc' = "ready"
            /\ currentTheme' = InitialTheme
            /\ dataTheme' = InitialTheme
            /\ btnActive' = UpdateActiveButton(InitialTheme)
            /\ UNCHANGED themeThrew
    /\ failedSinceWrite' = ~canRead
    /\ lastOp' = Op("ThemeManager", NULL, 0)
    /\ UNCHANGED <<stored, canRead, canWrite, osDark, btnPresent>>
    /\ UNCHANGED svars

\* The body of setTheme(theme).
SetThemeBody(theme) ==
    IF ValidTheme(theme)
    THEN /\ currentTheme' = theme
         /\ dataTheme' = theme
         /\ stored' = SetStoredTheme(theme)
         /\ failedSinceWrite' = ~canWrite
         /\ IF WriteEscapes
            THEN \* setTheme is left at line 39, before updateActiveButton()
                 /\ themeThrew' = TRUE
                 /\ UNCHANGED btnActive
            ELSE /\ btnActive' = UpdateActiveButton(theme)
                 /\ UNCHANGED themeThrew
    ELSE UNCHANGED <<currentTheme, dataTheme, stored, btnActive, themeThrew,
                     failedSinceWrite>>

\* A call of setTheme(theme) on the constructed ThemeManager.
SetTheme(theme) ==
    /\ tmPc = "ready"
    /\ SetThemeBody(theme)
    /\ lastOp' = Op("setTheme", theme, 0)
    /\ UNCHANGED <<canRead, canWrite, osDark, btnPresent, tmPc>>
    /\ UNCHANGED svars

\* The OS color scheme changes; once the ThemeManager is constructed its
\* 'change' listener runs with e.matches = the new value.
SystemThemeChange ==
    /\ osDark' = ~osDark
    /\ IF tmPc = "ready" /\ NoStoredTheme
       THEN /\ currentTheme' = SchemeTheme(~osDark)
            /\ dataTheme' = SchemeTheme(~osDark)
            /\ btnActive' = UpdateActiveButton(SchemeTheme(~osDark))
       ELSE UNCHANGED <<currentTheme, dataTheme, btnActive>>
    /\ failedSinceWrite' = (failedSinceWrite \/ (tmPc = "ready" /\ ~canRead))
    /\ lastOp' = Op("schemeChange", NULL, 0)
    /\ UNCHANGED <<stored, canRead, canWrite, btnPresent, tmPc, themeThrew>>
    /\ UNCHANGED svars

\* The browser's storage becomes accessible or inaccessible (privacy mode,
\* blocked site data, quota).
StorageAccessChange(r, w) ==
    /\ <<r, w>> # <<canRead, canWrite>>
    /\ canRead' = r
    /\ canWrite' = w
    /\ lastOp' = Op("storageAccess", NULL, 0)
    /\ UNCHANGED <<stored, osDark, btnPresent, tmPc, currentTheme, dataTheme,
                   btnActive, themeThrew, failedSinceWrite>>
    /\ UNCHANGED svars

(***************************************************************************)
(* The catalog                                                             *)
(***************************************************************************)

\* The category keys of the catalogs: one the provider tables know, one
\* they do not, and the reserved key of the searching group.
Categories == {"Bee", "Misc", "Searching"}

\* ServiceRecords: name and the optional description.
Service(name, description) == [name |-> name, description |-> description]

\* The records of the enumerated catalogs: two of them share a name.
Records == { Service("alpha", "first"), Service("alpha", "second"),
             Service("Zeta", NULL) }

\* One entry of Object.entries(catalog): a category and its value, a list of
\* records (isArray) or anything else.
Entry(category, isArray, list) ==
    [category |-> category, isArray |-> isArray, list |-> list]

\* At most this many records in one catalog.
MaxRecords == 3

ListsUpTo(n) == UNION { [1..k -> Records] : k \in 0..n }

EntriesOf(category, n) ==
    { Entry(category, TRUE, l) : l \in ListsUpTo(n) }
        \cup { Entry(category, FALSE, <<>>) }

\* The catalogs over the categories cats, in every key order, that hold at
\* most n records.
RECURSIVE CatalogsOver(_, _)
CatalogsOver(cats, n) ==
    {<<>>} \cup
    UNION { UNION { { <<e>> \o rest : rest \in CatalogsOver(cats \ {c}, n - Len(e.list)) }
                    : e \in EntriesOf(c, n) }
            : c \in cats }

\* What the fetch settles to: a status and, for "ok", the parsed body.
\*   "ok"       response.ok and a body that parses
\*   "http"     response.ok is false (HTTP 500)
\*   "network"  fetch() rejects
\*   "parse"    response.json() rejects
Response(status, body) == [status |-> status, body |-> body]

FailureStatuses == {"http", "network", "parse"}

ResponsesOver(catalogs) ==
    { Response("ok", c) : c \in catalogs }
        \cup { Response(st, <<>>) : st \in FailureStatuses }

(***************************************************************************)
(* ServicesManager: rendering                                              *)
(***************************************************************************)

\* getProviderImage(category).
GetProviderImage(category) ==
    CASE category = "Bee"       -> "./assets/img/basil.jpeg"
      [] category = "Onyx"      -> "./assets/img/onyx.jpeg"
      [] category = "General"   -> "./assets/img/general.jpeg"
      [] category = "Searching" -> "./assets/img/searching.jpeg"
      [] OTHER                  -> "./assets/img/general.jpeg"

\* getProviderName(category).
GetProviderName(category) ==
    CASE category = "Bee"       -> "Basil"
      [] category = "Onyx"      -> "Onyx"
      [] category = "General"   -> "General"
      [] category = "Searching" -> "Looking for"
      [] OTHER                  -> category

\* getProviderMessage(category).
GetProviderMessage(category) ==
    CASE category = "Bee"       -> "Basil can help you!"
      [] category = "Onyx"      -> "Onyx can help you!"
      [] category = "General"   -> "We can help you!"
      [] category = "Searching" -> "We're searching for this!"
      [] OTHER                  -> "We can help you!"

\* createServiceCard(service, category): the card element, by its record,
\* its category and the provider identity it shows.
CreateServiceCard(service, category) ==
    [kind |-> "service-card", service |-> service, category |-> category,
     title |-> service.name,
     providerImage |-> GetProviderImage(category),
     providerName |-> GetProviderName(category),
     providerMessage |-> GetProviderMessage(category)]

\* The section-break element, the two placeholders.
SectionBreak == [kind |-> "section-break",
                 heading |-> "Things we're looking for:"]

EmptyState == [kind |-> "empty-state", heading |-> "No services available"]

ErrorState == [kind |-> "empty-state", heading |-> "Unable to load services"]

\* The position of a name under String.prototype.localeCompare: letters
\* compare by alphabet before case, so "alpha" < "Gamma" < "Zeta" (the order
\* of the UTF-16 code units is "Gamma" < "Zeta" < "alpha").
LocaleRank(name) ==
    CASE name = "alpha" -> 1
      [] name = "Gamma" -> 2
      [] name = "Zeta"  -> 3

\* a.localeCompare(b): negative, zero or positive.
LocaleCompare(a, b) ==
    IF LocaleRank(a) < LocaleRank(b) THEN -1
    ELSE IF LocaleRank(a) > LocaleRank(b) THEN 1 ELSE 0

\* A variant of IsSearching that compares with the key in lower case.
IsSearchingLower(category) == category = "searching"

\* category === 'Searching'.
IsSearching(category) == category = "Searching"

\* The {service, category} pairs of one entry, in list order; none for a
\* value that is not an array.
PairsOf(entry) ==
    IF entry.isArray
    THEN [i \in 1..Len(entry.list) |->
             [service |-> entry.list[i], category |-> entry.category]]
    ELSE <<>>

\* The pairs of the whole catalog, in the order the two forEach loops visit
\* them.
RECURSIVE Collected(_)
Collected(catalog) ==
    IF catalog = <<>> THEN <<>>
    ELSE PairsOf(Head(catalog)) \o Collected(Tail(catalog))

IsSearchingPair(p) == IsSearching(p.category)

IsMainPair(p) == ~IsSearching(p.category)

\* mainServices and searchingServices before they are sorted.
MainServices(catalog) == SelectSeq(Collected(catalog), IsMainPair)

SearchingServices(catalog) == SelectSeq(Collected(catalog), IsSearchingPair)

\* A variant of InsertSorted that places a pair before the pairs of an equal
\* name: the sort it gives is ordered and not stable.
RECURSIVE InsertBeforeEqual(_, _)
InsertBeforeEqual(p, sorted) ==
    IF sorted = <<>> THEN <<p>>
    ELSE IF LocaleCompare(p.service.name, Head(sorted).service.name) <= 0
         THEN <<p>> \o sorted
         ELSE <<Head(sorted)>> \o InsertBeforeEqual(p, Tail(sorted))

\* Where Array.prototype.sort, which is stable, leaves the pair p among the
\* sorted pairs before it: behind every pair whose name does not compare
\* greater than p's.
RECURSIVE InsertSorted(_, _)
InsertSorted(p, sorted) ==
    IF sorted = <<>> THEN <<p>>
    ELSE IF LocaleCompare(p.service.name, Head(sorted).service.name) < 0
         THEN <<p>> \o sorted
         ELSE <<Head(sorted)>> \o InsertSorted(p, Tail(sorted))

\* pairs.sort((a, b) => a.service.name.localeCompare(b.service.name)).
RECURSIVE SortByName(_)
SortByName(pairs) ==
    IF pairs = <<>> THEN <<>>
    ELSE InsertSorted(pairs[Len(pairs)],
                      SortByName(SubSeq(pairs, 1, Len(pairs) - 1)))

\* The cards of a list of pairs, in its order.
CardsOf(pairs) ==
    [i \in 1..Len(pairs) |-> CreateServiceCard(pairs[i].service, pairs[i].category)]

\* A variant of SearchingSection that appends the section break whether or
\* not there are searching services.
SearchingSectionAlways(searching) == <<SectionBreak>> \o CardsOf(searching)

\* What follows the main cards in the fragment: the section break and the
\* searching cards, when there are searching services.
SearchingSection(searching) ==
    IF Len(searching) > 0
    THEN <<SectionBreak>> \o CardsOf(searching)
    ELSE <<>>

\* The fragment renderServices appends to the cleared grid.
Fragment(catalog) ==
    CardsOf(SortByName(MainServices(catalog)))
        \o SearchingSection(SortByName(SearchingServices(catalog)))

\* A variant of NoServicesData that tests only  !this.services.
NoServicesDataNullOnly(catalog) == FALSE

\* !this.services || Object.keys(this.services).length === 0.
NoServicesData(catalog) == Len(catalog) = 0

\* The grid's children after renderServices() on a document with a grid.
RenderedGrid(catalog) ==
    IF NoServicesData(catalog) THEN <<EmptyState>> ELSE Fragment(catalog)

\* The number of cards among the children of the grid.
NumCards(g) == Cardinality({ i \in DOMAIN g : g[i].kind = "service-card" })

(***************************************************************************)
(* ServicesManager: the sub-item dropdowns                                 *)
(***************************************************************************)

\* A SubItem of a record's sub_items.
SubItem(name, description) == [name |-> name, description |-> description]

\* A ServiceRecord that has the sub_items property, a list of SubItems
\* (Service builds the records without it).
ServiceWith(name, description, sub_items) ==
    [name |-> name, description |-> description, sub_items |-> sub_items]

\* The truthiness of service.sub_items: the property is there (an empty
\* array is truthy).
HasSubItems(service) == "sub_items" \in DOMAIN service

\* createSubItemsDropdown(service) returns a dropdown, not ''.
HasDropdown(service) ==
    HasSubItems(service) /\ Len(service.sub_items) > 0

\* The value the parser gives an option written as
\*   <option value="${escapeHtml(name)}">
\* escapeHtml (textContent in, innerHTML out) escapes &, < and > and leaves a
\* double quote as it is, so the attribute ends at the first double quote
\* of the name.
OptionValue(name) ==
    CASE name = "6\" pipe" -> "6"
      [] OTHER             -> name

\* The textContent of the card's title element, written as
\* ${escapeHtml(service.name)} in element content: parsing undoes the
\* escaping.
TitleText(card) == card.title

\* The position in the grid of card number i (cards are numbered in document
\* order).
CardPosition(g, i) ==
    CHOOSE p \in DOMAIN g :
        /\ g[p].kind = "service-card"
        /\ Cardinality({ q \in 1..p : g[q].kind = "service-card" }) = i

\* The numbers of the cards that carry a dropdown.
DropdownCards(g) ==
    { i \in 1..NumCards(g) : HasDropdown(g[CardPosition(g, i)].service) }

\* The drawer of a dropdown as createSubItemsDropdown writes it: out of the
\* layout, empty, the neutral option (number 0) selected.
NewDrawer ==
    [selected |-> 0, display |-> "none", classes |-> {},
     title |-> "", description |-> ""]

\* The drawers of the rendered grid, by card number.
DrawersOf(g) == [i \in DropdownCards(g) |-> NewDrawer]

\* sub_items.find(item => item.name === value) coming to undefined.
NoItem == SubItem(NULL, NULL)

\* sub_items.find(item => item.name === value).
RECURSIVE FindItem(_, _)
FindItem(items, value) ==
    IF items = <<>> THEN NoItem
    ELSE IF Head(items).name = value THEN Head(items)
    ELSE FindItem(Tail(items), value)

\* The change listener's scan, from selectedSubItem = found on: every record
\* named like the title that has sub_items assigns the outcome of its find.
RECURSIVE ScanFrom(_, _, _, _)
ScanFrom(pairs, title, value, found) ==
    IF pairs = <<>> THEN found
    ELSE LET service == Head(pairs).service IN
         ScanFrom(Tail(pairs), title, value,
                  IF service.name = title /\ HasSubItems(service)
                  THEN FindItem(service.sub_items, value)
                  ELSE found)

\* selectedSubItem after the scan of this.services.
SelectedSubItem(catalog, title, value) ==
    ScanFrom(Collected(catalog), title, value, NoItem)

\* The listener's test  selectedValue && selectedSubItem.
Resolves(value, item) == Truthy(value) /\ item # NoItem

\* showDrawer(drawer).
ShowDrawer(drawer) ==
    [drawer EXCEPT !.display = "block", !.classes = @ \cup {"drawer-open"}]

\* hideDrawer(drawer), up to its setTimeout.
HideDrawer(drawer) ==
    [drawer EXCEPT !.classes = (@ \ {"drawer-open"}) \cup {"drawer-closing"}]

\* The callback of hideDrawer's timer.
HideDrawerEnd(drawer) ==
    [drawer EXCEPT !.classes = @ \ {"drawer-closing"}, !.display = "none"]

(***************************************************************************)
(* ServicesManager: loading                                                *)
(***************************************************************************)

Timer(kind, idx) == [kind |-> kind, idx |-> idx]

\* A variant of HideLoading that leaves the loading element as it is.
HideLoadingNever == UNCHANGED <<loadingHidden, timers300>>

\* hideLoading(): with a #loading element it gains 'hidden' and a 300ms
\* timer is set; without one nothing happens.
HideLoading ==
    IF loadingPresent
    THEN /\ loadingHidden' = TRUE
         /\ timers300' = Append(timers300, Timer("loading", 0))
    ELSE UNCHANGED <<loadingHidden, timers300>>

\* new ServicesManager(): the constructor, and init() up to the pending
\* fetch.
ServicesManagerNew ==
    /\ smPc = "new"
    /\ smPc' = "loading"
    /\ services' = <<>>
    /\ lastOp' = Op("ServicesManager", NULL, 0)
    /\ UNCHANGED <<response, gridPresent, loadingPresent, grid, loadingHidden,
                   loadingDisplay, initRejected, handlers, activeMessage,
                   msgClasses, timers400, timers300>>
    /\ UNCHANGED <<drawers, clickedOutside>>
    /\ UNCHANGED tvars

\* The fetch settles with a catalog: loadServices() stores it, then init()
\* runs renderServices() and hideLoading().
LoadSucceeds ==
    /\ smPc = "loading"
    /\ response.status = "ok"
    /\ smPc' = "done"
    /\ services' = response.body
    /\ IF ~gridPresent
       THEN UNCHANGED <<grid, handlers, msgClasses, drawers>>
       ELSE /\ grid' = RenderedGrid(response.body)
            /\ handlers' = ~NoServicesData(response.body)
            /\ msgClasses' = [i \in 1..NumCards(RenderedGrid(response.body)) |-> {}]
            /\ drawers' = DrawersOf(RenderedGrid(response.body))
    /\ HideLoading
    /\ lastOp' = Op("load", response.status, 0)
    /\ UNCHANGED <<response, gridPresent, loadingPresent, loadingDisplay,
                   initRejected, activeMessage, timers400, clickedOutside>>
    /\ UNCHANGED tvars

\* A variant of LoadFails that tries the load again: after showError() the
\* ServicesManager waits for a second fetch.
LoadFailsRetry ==
    /\ smPc = "loading"
    /\ response.status \in FailureStatuses
    /\ grid = <<>>
    /\ ~initRejected
    /\ smPc' = "loading"
    /\ HideLoading
    /\ IF gridPresent
       THEN grid' = <<ErrorState>> /\ UNCHANGED initRejected
       ELSE initRejected' = TRUE /\ UNCHANGED grid
    /\ lastOp' = Op("load", response.status, 0)
    /\ UNCHANGED <<response, gridPresent, loadingPresent, services,
                   loadingDisplay, handlers, activeMessage, msgClasses,
                   timers400>>
    /\ UNCHANGED <<drawers, clickedOutside>>
    /\ UNCHANGED tvars

\* The fetch fails (status, transport or body): loadServices() rethrows and
\* init() runs showError(), which throws on a document without a grid.
LoadFails ==
    /\ smPc = "loading"
    /\ response.status \in FailureStatuses
    /\ smPc' = "done"
    /\ HideLoading
    /\ IF gridPresent
       THEN grid' = <<ErrorState>> /\ UNCHANGED initRejected
       ELSE initRejected' = TRUE /\ UNCHANGED grid
    /\ lastOp' = Op("load", response.status, 0)
    /\ UNCHANGED <<response, gridPresent, loadingPresent, services,
                   loadingDisplay, handlers, activeMessage, msgClasses,
                   timers400>>
    /\ UNCHANGED <<drawers, clickedOutside>>
    /\ UNCHANGED tvars

\* The oldest 300ms timer fires: hideLoading's sets the display of #loading
\* to 'none', hideDrawer's takes its drawer out of the layout.
Timer300Fires ==
    /\ timers300 # <<>>
    /\ timers300' = Tail(timers300)
    /\ LET t == Head(timers300) IN
       /\ IF t.kind = "loading"
          THEN /\ loadingDisplay' = "none"
               /\ UNCHANGED drawers
          ELSE /\ drawers' = [drawers EXCEPT ![t.idx] = HideDrawerEnd(@)]
               /\ UNCHANGED loadingDisplay
       /\ lastOp' = Op("timer300", t.kind, t.idx)
    /\ UNCHANGED <<response, gridPresent, loadingPresent, smPc, services, grid,
                   loadingHidden, initRejected, handlers, activeMessage,
                   msgClasses, timers400, clickedOutside>>
    /\ UNCHANGED tvars

(***************************************************************************)
(* ServicesManager: the provider-message bubbles                           *)
(***************************************************************************)

\* At most this many 400ms timers pending at once.
MaxTimers == 4

\* showProviderMessage(message), up to its setTimeout: the classes after it.
ShowStart(classes) == (classes \ {"flow-in"}) \cup {"flow-out"}

\* The callback of showProviderMessage's timer.
ShowEnd(classes) == (classes \ {"flow-out"}) \cup {"show"}

\* hideProviderMessage(message), up to its setTimeout.
HideStart(classes) == (classes \ {"show"}) \cup {"flow-in"}

\* The callback of hideProviderMessage's timer.
HideEnd(classes) == classes \ {"flow-in"}

\* The click listener's first test: another message is the active one.
OtherActive(i) == activeMessage # 0 /\ activeMessage # i

\* A click on the provider image of card i (the event does not reach the
\* document's listeners: stopPropagation).
ClickProvider(i) ==
    /\ handlers
    /\ i \in DOMAIN msgClasses
    /\ Len(timers400) + (IF OtherActive(i) THEN 2 ELSE 1) <= MaxTimers
    /\ LET closed == IF OtherActive(i)
                     THEN [msgClasses EXCEPT ![activeMessage] = HideStart(@)]
                     ELSE msgClasses
           queued == IF OtherActive(i)
                     THEN Append(timers400, Timer("hide", activeMessage))
                     ELSE timers400
       IN IF activeMessage = i
          THEN /\ msgClasses' = [closed EXCEPT ![i] = HideStart(@)]
               /\ timers400' = Append(queued, Timer("hide", i))
               /\ activeMessage' = 0
          ELSE /\ msgClasses' = [closed EXCEPT ![i] = ShowStart(@)]
               /\ timers400' = Append(queued, Timer("show", i))
               /\ activeMessage' = i
    /\ lastOp' = Op("providerClick", NULL, i)
    /\ clickedOutside' = FALSE
    /\ UNCHANGED <<response, gridPresent, loadingPresent, smPc, services, grid,
                   loadingHidden, loadingDisplay, initRejected, handlers,
                   timers300>>
    /\ UNCHANGED drawers
    /\ UNCHANGED tvars

\* The two click listeners of the document, for a click that bubbles to it
\* with its target outside every bubble and provider image (target = 0) or
\* inside the message of card target; nothing before addProviderBubbleHandlers
\* has installed them. The first listener hides the active message; the
\* second calls stopPropagation for a target inside a message, which stops
\* neither the first listener, that has run by then, nor anything else here.
DocumentListeners(target) ==
    IF handlers
    THEN /\ IF activeMessage # 0
            THEN /\ Len(timers400) < MaxTimers
                 /\ msgClasses' = [msgClasses EXCEPT
                                      ![activeMessage] = HideStart(@)]
                 /\ timers400' = Append(timers400, Timer("hide", activeMessage))
                 /\ activeMessage' = 0
            ELSE UNCHANGED <<msgClasses, timers400, activeMessage>>
         /\ clickedOutside' = (target = 0)
    ELSE UNCHANGED <<msgClasses, timers400, activeMessage, clickedOutside>>

\* A click that reaches the document and no other listener: its target lies
\* outside every bubble, provider image and theme control (target = 0) or
\* inside the message of card target.
DocumentClick(target) ==
    /\ handlers
    /\ target \in {0} \cup DOMAIN msgClasses
    /\ DocumentListeners(target)
    /\ lastOp' = Op("documentClick", NULL, target)
    /\ UNCHANGED <<response, gridPresent, loadingPresent, smPc, services, grid,
                   loadingHidden, loadingDisplay, initRejected, handlers,
                   timers300>>
    /\ UNCHANGED drawers
    /\ UNCHANGED tvars

\* A click on a theme control (or Enter / Space on it, which calls click()):
\* the control's listener of bindEvents runs setTheme, then the click bubbles
\* to the document's listeners as one outside every bubble.
ClickThemeButton(b) ==
    /\ tmPc = "ready"
    /\ b \in btnPresent
    /\ SetThemeBody(IF b = "lightMode" THEN "light" ELSE "dark")
    /\ DocumentListeners(0)
    /\ lastOp' = Op("themeClick", b, 0)
    /\ UNCHANGED <<canRead, canWrite, osDark, btnPresent, tmPc>>
    /\ UNCHANGED <<response, gridPresent, loadingPresent, smPc, services, grid,
                   loadingHidden, loadingDisplay, initRejected, handlers,
                   timers300, drawers>>

\* The oldest 400ms timer fires.
Timer400Fires ==
    /\ timers400 # <<>>
    /\ LET t == Head(timers400) IN
       /\ msgClasses' = [msgClasses EXCEPT ![t.idx] =
                            IF t.kind = "show" THEN ShowEnd(@) ELSE HideEnd(@)]
       /\ lastOp' = Op("timer400", t.kind, t.idx)
    /\ timers400' = Tail(timers400)
    /\ UNCHANGED <<response, gridPresent, loadingPresent, smPc, services, grid,
                   loadingHidden, loadingDisplay, initRejected, handlers,
                   activeMessage, timers300>>
    /\ UNCHANGED <<drawers, clickedOutside>>
    /\ UNCHANGED tvars

(***************************************************************************)
(* ServicesManager: the change listener of the dropdowns                   *)
(***************************************************************************)

\* At most this many 300ms timers pending at once when a selection sets
\* another.
MaxDrawerTimers == 2

\* The user selects option k of the dropdown of card i (0: the neutral
\* option, k: the option of the k-th sub-item), another option than the
\* selected one: the 'change' listener of addDropdownHandlers runs.
Select(i) ==
    /\ handlers
    /\ i \in DOMAIN drawers
    /\ LET card == grid[CardPosition(grid, i)]
           items == card.service.sub_items
       IN \E k \in 0..Len(items) :
            /\ k # drawers[i].selected
            /\ LET value == IF k = 0 THEN "" ELSE OptionValue(items[k].name)
                   item == SelectedSubItem(services, TitleText(card), value)
               IN IF Resolves(value, item)
                  THEN /\ drawers' = [drawers EXCEPT ![i] =
                              ShowDrawer([@ EXCEPT !.selected = k,
                                                   !.title = item.name,
                                                   !.description = item.description])]
                       /\ UNCHANGED timers300
                  ELSE /\ Len(timers300) < MaxDrawerTimers
                       /\ drawers' = [drawers EXCEPT ![i] =
                              HideDrawer([@ EXCEPT !.selected = k])]
                       /\ timers300' = Append(timers300, Timer("drawer", i))
            /\ lastOp' = Op("select", k, i)
    /\ UNCHANGED <<response, gridPresent, loadingPresent, smPc, services, grid,
                   loadingHidden, loadingDisplay, initRejected, handlers,
                   activeMessage, msgClasses, timers400, clickedOutside>>
    /\ UNCHANGED tvars

(***************************************************************************)
(* Specifications                                                          *)
(***************************************************************************)

\* The theme store's environment: any stored value, any storage access, any
\* OS scheme, any of the theme controls, any of them marked active.
InitTheme ==
    /\ stored \in StoredValues
    /\ canRead \in BOOLEAN
    /\ canWrite \in BOOLEAN
    /\ osDark \in BOOLEAN
    /\ btnPresent \in SUBSET ThemeButtons
    /\ btnActive \in SUBSET btnPresent
    /\ tmPc = "new"
    /\ currentTheme = NULL
    /\ dataTheme = NULL
    /\ themeThrew = FALSE
    /\ failedSinceWrite = FALSE

\* The usual environment of the theme store: nothing stored, storage
\* accessible, both controls in the document.
InitThemeDefault ==
    /\ stored = NULL
    /\ canRead = TRUE
    /\ canWrite = TRUE
    /\ osDark \in BOOLEAN
    /\ btnPresent = ThemeButtons
    /\ btnActive = {}
    /\ tmPc = "new"
    /\ currentTheme = NULL
    /\ dataTheme = NULL
    /\ themeThrew = FALSE
    /\ failedSinceWrite = FALSE

\* The ServicesManager before its constructor, on a document with or without
\* the grid and the loading element, for a fetch that settles to one of
\* responses.
InitServices(responses) ==
    /\ response \in responses
    /\ gridPresent \in BOOLEAN
    /\ loadingPresent \in BOOLEAN
    /\ smPc = "new"
    /\ services = <<>>
    /\ grid = <<>>
    /\ loadingHidden = FALSE
    /\ loadingDisplay = "block"
    /\ initRejected = FALSE
    /\ handlers = FALSE
    /\ activeMessage = 0
    /\ msgClasses = <<>>
    /\ timers400 = <<>>
    /\ timers300 = <<>>
    /\ drawers = <<>>
    /\ clickedOutside = FALSE

\* The example catalog of the specification, and smaller ones.
ExampleCatalog ==
    << Entry("Bee", TRUE, <<Service("Zeta", NULL), Service("alpha", "first")>>),
       Entry("Searching", TRUE, <<Service("Gamma", "third")>>) >>

SmallCatalogs ==
    { <<>>,
      << Entry("Misc", TRUE, <<>>) >>,
      << Entry("Bee", TRUE, <<Service("Zeta", NULL)>>),
         Entry("Searching", TRUE, <<Service("Gamma", "third")>>) >> }

\* The sub-item lists of the enumerated dropdown catalogs: the empty list, a
\* list of one, and a list whose first item is named like that one and whose
\* second has a double quote in its name.
ItemLists ==
    { <<>>,
      <<SubItem("small", "one")>>,
      <<SubItem("small", "two"), SubItem("6\" pipe", "three")>> }

\* Records with and without sub_items; some share their name.
DrawerRecords ==
    {Service("alpha", "first")}
        \cup { ServiceWith(name, "second", items) :
                   name \in {"alpha", "Zeta"}, items \in ItemLists }

\* At most this many records in one catalog of DrawerCatalogs.
MaxDrawerRecords == 2

\* The catalogs of one category over DrawerRecords.
DrawerCatalogs ==
    { <<Entry("Bee", TRUE, list)>> :
          list \in UNION { [1..k -> DrawerRecords] : k \in 1..MaxDrawerRecords } }

\* A catalog with one dropdown.
DropdownCatalog ==
    << Entry("Misc", TRUE,
             <<ServiceWith("Zeta", "second", <<SubItem("small", "one")>>)>>) >>

ThemeNext ==
    \/ ThemeManagerNew
    \/ \E theme \in ThemeInputs : SetTheme(theme)
    \/ \E b \in ThemeButtons : ClickThemeButton(b)
    \/ SystemThemeChange
    \/ \E r \in BOOLEAN, w \in BOOLEAN : StorageAccessChange(r, w)

LoadNext ==
    \/ ServicesManagerNew
    \/ LoadSucceeds
    \/ LoadFails
    \/ Timer300Fires

BubbleNext ==
    \/ \E i \in 1..MaxRecords : ClickProvider(i)
    \/ \E target \in 0..MaxRecords : DocumentClick(target)
    \/ Timer400Fires

DrawerNext == \E i \in 1..MaxRecords : Select(i)

\* The theme store alone, in every environment.
InitT ==
    /\ InitTheme
    /\ InitServices({Response("ok", <<>>)})
    /\ lastOp = Op("DOMContentLoaded", NULL, 0)

SpecTheme == InitT /\ [][ThemeNext]_vars

\* The catalog load and the rendering, for every catalog within the bounds.
InitR ==
    /\ InitThemeDefault
    /\ InitServices(ResponsesOver(CatalogsOver(Categories, MaxRecords)))
    /\ lastOp = Op("DOMContentLoaded", NULL, 0)

SpecRender == InitR /\ [][LoadNext]_vars

\* The load and the bubbles of the rendered cards.
InitB ==
    /\ InitThemeDefault
    /\ InitServices(ResponsesOver(SmallCatalogs \cup {ExampleCatalog}))
    /\ lastOp = Op("DOMContentLoaded", NULL, 0)

SpecBubble == InitB /\ [][LoadNext \/ BubbleNext]_vars

\* The load and the dropdowns of the rendered cards.
InitD ==
    /\ InitThemeDefault
    /\ InitServices(ResponsesOver(DrawerCatalogs))
    /\ lastOp = Op("DOMContentLoaded", NULL, 0)

SpecDrawer == InitD /\ [][LoadNext \/ DrawerNext]_vars

\* The page with catalogs that have no dropdown: the theme store, the load
\* and the bubbles.
InitP ==
    /\ InitThemeDefault
    /\ InitServices(ResponsesOver(SmallCatalogs))
    /\ lastOp = Op("DOMContentLoaded", NULL, 0)

SpecPage == InitP /\ [][ThemeNext \/ LoadNext \/ BubbleNext]_vars

\* The whole page.
Init ==
    /\ InitThemeDefault
    /\ InitServices(ResponsesOver(SmallCatalogs \cup {DropdownCatalog}))
    /\ lastOp = Op("DOMContentLoaded", NULL, 0)

Next == ThemeNext \/ LoadNext \/ BubbleNext \/ DrawerNext

Spec == Init /\ [][Next]_vars

(***************************************************************************)
(* Properties                                                              *)
(***************************************************************************)

\* The fetch has settled with a catalog and the document has a grid.
LoadedOk == smPc = "done" /\ response.status = "ok" /\ gridPresent

\* The fetch has settled with a failure and the document has a grid.
LoadedFailed == smPc = "done" /\ response.status \in FailureStatuses /\ gridPresent

CardPositions == { i \in DOMAIN grid : grid[i].kind = "service-card" }

BreakPositions == { i \in DOMAIN grid : grid[i].kind = "section-break" }

\* A child of the grid lies in the searching group when it follows a section
\* break, in the main group otherwise.
InSearchingGroup(i) == \E b \in BreakPositions : b < i

\* How many times record r is filed under category c in a catalog.
TimesFiled(catalog, c, r) ==
    Cardinality({ <<k, i>> \in (DOMAIN catalog) \X (1..MaxRecords) :
                    /\ catalog[k].category = c
                    /\ catalog[k].isArray
                    /\ i \in DOMAIN catalog[k].list
                    /\ catalog[k].list[i] = r })

\* How many cards of the grid show record r of category c.
TimesRendered(c, r) ==
    Cardinality({ i \in CardPositions :
                    grid[i].service = r /\ grid[i].category = c })

HasSearchingRecords(catalog) ==
    \E k \in DOMAIN catalog :
        /\ catalog[k].category = "Searching"
        /\ catalog[k].isArray
        /\ Len(catalog[k].list) > 0

IsCard(node) == node.kind = "service-card"

\* The cards before the first section break, and those after it.
FirstBreak ==
    IF BreakPositions = {} THEN Len(grid) + 1
    ELSE CHOOSE b \in BreakPositions : \A c \in BreakPositions : b <= c

MainGroup == SelectSeq(SubSeq(grid, 1, FirstBreak - 1), IsCard)

SearchingGroup == SelectSeq(SubSeq(grid, FirstBreak + 1, Len(grid)), IsCard)

NonDecreasing(cards) ==
    \A i, j \in DOMAIN cards :
        i < j => LocaleCompare(cards[i].service.name, cards[j].service.name) <= 0

\* The cards of one name are the collected pairs of that name, in the order
\* they were collected.
KeepsCollectedOrder(cards, collected) ==
    \A r \in Records :
        LET SameName(x) == LocaleCompare(x.service.name, r.name) = 0
            shown == SelectSeq(cards, SameName)
        IN [i \in 1..Len(shown) |->
               [service |-> shown[i].service, category |-> shown[i].category]]
           = SelectSeq(collected, SameName)

\* C1 (as claimed): at most one provider-message bubble carries the 'show'
\* class at any instant, for any interleaving of provider clicks, document
\* clicks and firings of the 400ms timers.
C1_AtMostOneShown ==
    Cardinality({ i \in DOMAIN msgClasses : "show" \in msgClasses[i] }) <= 1

\* C2: after a successful load the cards correspond one-to-one to the
\* records of the catalog (each record filed n times under a category is
\* shown by exactly n cards of that category), and a card lies in the
\* searching group exactly when its record is filed under 'Searching'.
C2_CardsMatchRecords ==
    LoadedOk =>
        /\ \A c \in Categories, r \in Records :
               TimesRendered(c, r) = TimesFiled(services, c, r)
        /\ \A i \in CardPositions : grid[i].category \in Categories
        /\ \A i \in CardPositions :
               InSearchingGroup(i) <=> (grid[i].category = "Searching")

\* C2's case: a catalog of lists with a record filed twice, main and
\* searching records, rendered.
C2_Witness ==
    /\ LoadedOk
    /\ \A k \in DOMAIN services : services[k].isArray
    /\ \E c \in Categories, r \in Records : TimesFiled(services, c, r) = 2
    /\ HasSearchingRecords(services)
    /\ Len(MainGroup) = 2

\* C3: within the main group and within the searching group the cards are in
\* non-decreasing order of name, and cards of equal names keep the order in
\* which their records were collected from the catalog.
C3_SortedStable ==
    LoadedOk =>
        /\ NonDecreasing(MainGroup)
        /\ NonDecreasing(SearchingGroup)
        /\ KeepsCollectedOrder(MainGroup, MainServices(services))
        /\ KeepsCollectedOrder(SearchingGroup, SearchingServices(services))

\* C3's case: two different records of one name, collected from two
\* categories behind a record of a greater name, rendered in one group.
C3_Witness ==
    /\ LoadedOk
    /\ Len(MainGroup) = 3
    /\ MainServices(services)[1].service.name = "Zeta"
    /\ MainServices(services)[2].service = Service("alpha", "second")
    /\ MainServices(services)[3].service = Service("alpha", "first")
    /\ MainServices(services)[2].category # MainServices(services)[3].category

\* C4: after a successful render the section break appears exactly once,
\* after every main card and before every searching card, when the catalog
\* has searching records; with none, no section break appears.
C4_SectionBreak ==
    LoadedOk =>
        IF HasSearchingRecords(services)
        THEN /\ Cardinality(BreakPositions) = 1
             /\ \A i \in CardPositions, b \in BreakPositions :
                    IF grid[i].category = "Searching" THEN b < i ELSE i < b
        ELSE BreakPositions = {}

\* C4's case: main cards, the break, searching cards.
C4_Witness ==
    /\ LoadedOk
    /\ Len(MainGroup) >= 1
    /\ Len(SearchingGroup) >= 1
    /\ Cardinality(BreakPositions) = 1

\* C4's other case: cards and no searching record.
C4_WitnessNoBreak ==
    /\ LoadedOk
    /\ Len(MainGroup) >= 1
    /\ ~HasSearchingRecords(services)

\* The states of the renderer, read from the document.
Loading ==
    /\ smPc = "loading"
    /\ grid = <<>>
    /\ ~handlers
    /\ ~loadingHidden

Rendered ==
    /\ smPc = "done"
    /\ handlers
    /\ \A i \in DOMAIN grid : grid[i].kind \in {"service-card", "section-break"}

Empty ==
    /\ smPc = "done"
    /\ ~handlers
    /\ grid = <<[kind |-> "empty-state", heading |-> "No services available"]>>

Error ==
    /\ smPc = "done"
    /\ ~handlers
    /\ grid = <<[kind |-> "empty-state", heading |-> "Unable to load services"]>>

ExactlyOne(a, b, c) == (a /\ ~b /\ ~c) \/ (~a /\ b /\ ~c) \/ (~a /\ ~b /\ c)

\* C5: on a document with a grid, a catalog load is in Loading while the
\* fetch is pending and, once it has settled, in exactly one of Rendered,
\* Empty and Error; from then on no step (click, timer, theme change)
\* changes the grid, installs listeners or makes the load pending again.
C5_LoadStateMachine ==
    /\ [](gridPresent =>
            /\ (smPc = "loading" => Loading)
            /\ (smPc = "done" => ExactlyOne(Rendered, Empty, Error)))
    /\ [][smPc = "done" =>
            /\ smPc' = "done"
            /\ grid' = grid
            /\ handlers' = handlers
            /\ services' = services]_vars

\* C5's case: a settled load, rendered, with a bubble clicked, a timer
\* fired and the theme changed since.
C5_Witness ==
    /\ gridPresent
    /\ Rendered
    /\ NumCards(grid) = 2
    /\ \E i \in DOMAIN msgClasses : "show" \in msgClasses[i]
    /\ loadingDisplay = "none"
    /\ lastOp.op = "setTheme"

\* The loading indicator is dismissed: it carries 'hidden', and is out of
\* layout once its 300ms timer has fired.
LoadingDismissed ==
    /\ loadingHidden
    /\ (timers300 = <<>> => loadingDisplay = "none")

\* C6: when the fetch returns a non-success status, the transport fails or
\* the body does not parse, the grid shows the 'unable to load' placeholder
\* and no card, and the loading indicator is dismissed.
C6_FailureShowsError ==
    LoadedFailed =>
        /\ grid = <<[kind |-> "empty-state", heading |-> "Unable to load services"]>>
        /\ NumCards(grid) = 0
        /\ (loadingPresent => LoadingDismissed)

\* C6's case: an HTTP failure, settled, the timer of the indicator fired.
C6_Witness ==
    /\ LoadedFailed
    /\ response.status = "http"
    /\ loadingPresent
    /\ loadingDisplay = "none"

\* C7: a successful load of the empty catalog {} shows the 'no services'
\* placeholder, not the 'unable to load' one, and the loading indicator is
\* dismissed.
C7_EmptyCatalog ==
    (LoadedOk /\ response.body = <<>>) =>
        /\ grid = <<[kind |-> "empty-state", heading |-> "No services available"]>>
        /\ (loadingPresent => LoadingDismissed)

\* C7's case: the empty catalog, loaded, the timer of the indicator fired.
C7_Witness ==
    /\ LoadedOk
    /\ response.body = <<>>
    /\ services = <<>>
    /\ loadingPresent
    /\ loadingDisplay = "none"

\* C8: a call of setTheme with a value outside {light, dark} changes
\* nothing: not the current theme, the document's data-theme, the stored
\* preference or the active control.
C8_SetThemeInvalidNoOp ==
    [][(lastOp'.op = "setTheme" /\ lastOp'.arg \notin {"light", "dark"}) =>
           UNCHANGED <<currentTheme, dataTheme, stored, btnActive>>]_vars

\* C8's case: setTheme('contrast-dark') has run on a light page with a
\* stored preference and an active control.
C8_Witness ==
    /\ lastOp = Op("setTheme", "contrast-dark", 0)
    /\ currentTheme = "light"
    /\ stored = "light"
    /\ btnActive = {"lightMode"}

\* C9 (as claimed): at start-up the initial theme is the OS's when no
\* preference is persisted, and the persisted preference when there is one.
C9_InitialThemeAsClaimed ==
    lastOp.op = "ThemeManager" =>
        /\ (stored = NULL => currentTheme = (IF osDark THEN "dark" ELSE "light"))
        /\ (stored # NULL => currentTheme = stored)

\* C9 (amended): at start-up the initial theme, also marked on the document,
\* is the OS's when no preference is persisted, and the persisted preference
\* when there is one and reading it does not throw.
C9_InitialTheme ==
    lastOp.op = "ThemeManager" =>
        /\ dataTheme = currentTheme
        /\ (stored = NULL => currentTheme = (IF osDark THEN "dark" ELSE "light"))
        /\ ((stored # NULL /\ canRead) => currentTheme = stored)

\* C9's cases: a persisted preference that wins over a contrary OS signal,
\* and no preference under a dark OS.
C9_Witness ==
    /\ lastOp.op = "ThemeManager"
    /\ stored = "light"
    /\ canRead
    /\ osDark
    /\ currentTheme = "light"

C9_WitnessNoPreference ==
    /\ lastOp.op = "ThemeManager"
    /\ stored = NULL
    /\ osDark
    /\ currentTheme = "dark"

\* C10 (as claimed): on an OS color-scheme change the applied theme becomes
\* the signalled one when no preference is persisted, and the applied theme
\* and the preference are unchanged when one is persisted.
C10_SchemeChangeAsClaimed ==
    [][(lastOp'.op = "schemeChange" /\ tmPc = "ready") =>
           IF stored = NULL
           THEN /\ currentTheme' = (IF osDark' THEN "dark" ELSE "light")
                /\ dataTheme' = currentTheme'
                /\ stored' = stored
           ELSE UNCHANGED <<currentTheme, dataTheme, stored>>]_vars

\* C10 (amended): on an OS color-scheme change the applied theme becomes the
\* signalled one when no preference is persisted, and the applied theme and
\* the preference are unchanged when one is persisted and reading it does
\* not throw. The preference is unchanged in every case.
C10_SchemeChange ==
    [][(lastOp'.op = "schemeChange" /\ tmPc = "ready") =>
           /\ stored' = stored
           /\ (stored = NULL =>
                  /\ currentTheme' = (IF osDark' THEN "dark" ELSE "light")
                  /\ dataTheme' = currentTheme')
           /\ ((stored # NULL /\ canRead) =>
                  UNCHANGED <<currentTheme, dataTheme>>)]_vars

\* C10's cases: the scheme has changed to dark and the light preference
\* still applies; the scheme has changed with nothing stored.
C10_Witness ==
    /\ lastOp.op = "schemeChange"
    /\ tmPc = "ready"
    /\ stored = "light"
    /\ canRead
    /\ osDark
    /\ currentTheme = "light"
    /\ dataTheme = "light"

C10_WitnessNoPreference ==
    /\ lastOp.op = "schemeChange"
    /\ tmPc = "ready"
    /\ stored = NULL
    /\ osDark
    /\ currentTheme = "dark"

\* The theme a finished theme operation asked for: the argument of setTheme,
\* the theme of the clicked control.
RequestedTheme ==
    CASE lastOp.op = "setTheme"   -> lastOp.arg
      [] lastOp.op = "themeClick" ->
             IF lastOp.arg = "lightMode" THEN "light" ELSE "dark"
      [] OTHER                    -> NULL

\* C11: storage failures never escape the theme store. No exception leaves
\* a method of the ThemeManager; a construction whose read of the preference
\* throws completes with the OS theme; a setTheme (or a click on a theme
\* control) with a valid theme whose write throws still applies the theme to
\* the document and to the active control.
C11_StorageFailuresContained ==
    /\ ~themeThrew
    /\ tmPc \in {"new", "ready"}
    /\ (lastOp.op = "ThemeManager" /\ ~canRead) =>
           /\ tmPc = "ready"
           /\ currentTheme = GetSystemTheme
           /\ dataTheme = GetSystemTheme
    /\ (ValidTheme(RequestedTheme) /\ ~canWrite) =>
           /\ currentTheme = RequestedTheme
           /\ dataTheme = RequestedTheme
           /\ btnActive = UpdateActiveButton(RequestedTheme)

\* A setTheme whose write threw: the document shows the theme and the store
\* still holds another value.
C11_Witness ==
    /\ lastOp.op = "setTheme"
    /\ lastOp.arg = "dark"
    /\ ~canWrite
    /\ stored # "dark"
    /\ dataTheme = "dark"
    /\ btnActive = {"darkMode"}

\* A construction whose read threw although a preference is stored.
C11_WitnessRead ==
    /\ lastOp.op = "ThemeManager"
    /\ ~canRead
    /\ stored = "light"
    /\ osDark
    /\ dataTheme = "dark"
\* The steps that apply a theme: the construction, setTheme, a click on a
\* theme control, the OS scheme listener.
AppliesTheme ==
    /\ tmPc' = "ready"
    /\ lastOp'.op \in {"ThemeManager", "setTheme", "themeClick", "schemeChange"}

\* C12: applying a theme leaves the control mapped to the current theme as
\* the one control carrying the active indicator (for a control the document
\* has); applying a theme without a mapped control changes the active
\* indicator of no control.
C12_ActiveControl ==
    [][AppliesTheme =>
          /\ (ThemeMap(currentTheme') \in btnPresent) =>
                 btnActive' = {ThemeMap(currentTheme')}
          /\ (ThemeMap(currentTheme') = NULL) => btnActive' = btnActive]_vars

\* The markers of a bubble's visible states.
VisibleMarkers == {"show", "flow-in", "flow-out"}

\* C14: after a click outside every bubble and provider image, once the
\* pending 400ms timers have fired and no other click has followed, no bubble
\* carries the shown marker.
C14_OutsideClickHides ==
    (clickedOutside /\ timers400 = <<>>) =>
        \A i \in DOMAIN msgClasses : "show" \notin msgClasses[i]

\* C15: a click inside the shown bubble leaves it shown and leaves the
\* active-bubble reference as it was.
C15_InsideClickKeeps ==
    [][(/\ lastOp'.op = "documentClick"
        /\ lastOp'.idx # 0
        /\ lastOp'.idx = activeMessage
        /\ "show" \in msgClasses[activeMessage]) =>
          /\ "show" \in msgClasses'[activeMessage]
          /\ activeMessage' = activeMessage]_vars

\* C16: a bubble that is not the active one (never shown, or hidden and not
\* clicked since) carries none of the visible-state markers once every
\* pending 400ms timer has fired.
C16_HiddenCarriesNoMarker ==
    timers400 = <<>> =>
        \A i \in DOMAIN msgClasses :
            activeMessage # i => msgClasses[i] \cap VisibleMarkers = {}
\* C17: on a document without the card container nothing is rendered and
\* the promise of init() is not rejected, whatever the fetch settles to.
C17_MissingGridNeverRaises ==
    ~gridPresent => (grid = <<>> /\ ~initRejected)

\* The catalog holds a record: a category whose value is a non-empty list.
HasRecords(catalog) ==
    \E k \in DOMAIN catalog : catalog[k].isArray /\ Len(catalog[k].list) > 0

\* C19: once the ThemeManager is constructed, currentTheme and the
\* document's data-theme are members of {light, dark}, whatever is stored
\* under the preference key at start-up.
C19_ThemeInEnumeration ==
    tmPc = "ready" =>
        /\ currentTheme \in {"light", "dark"}
        /\ dataTheme \in {"light", "dark"}

\* C20: after a successful load the grid is not blank: the 'no services'
\* placeholder for a catalog without records, at least one card otherwise.
C20_GridNeverBlank ==
    LoadedOk =>
        IF HasRecords(response.body)
        THEN CardPositions # {}
        ELSE grid = <<[kind |-> "empty-state", heading |-> "No services available"]>>
\* The record card i was built from.
CardService(i) == grid[CardPosition(grid, i)].service

\* C13: selecting a non-neutral option of a card's dropdown fills the card's
\* drawer with the name and the description of that very sub-item of that
\* card's record.
C13_SelectFillsPanel ==
    [][(lastOp'.op = "select" /\ lastOp'.arg # 0) =>
          LET i == lastOp'.idx
              item == CardService(i).sub_items[lastOp'.arg]
          IN /\ drawers'[i].title = item.name
             /\ drawers'[i].description = item.description]_vars

\* No timer of hideDrawer is pending.
NoDrawerTimer == \A k \in DOMAIN timers300 : timers300[k].kind # "drawer"

\* The selected option of the dropdown of card i resolves to a sub-item.
SelectionResolves(i) ==
    /\ drawers[i].selected # 0
    /\ LET value == OptionValue(CardService(i).sub_items[drawers[i].selected].name)
       IN Resolves(value, SelectedSubItem(services, CardService(i).name, value))

\* C18: once the pending timers of the drawers have fired, a drawer is in
\* the layout exactly if the most recent selection of its dropdown resolved
\* to a sub-item.
C18_DrawerFollowsSelection ==
    NoDrawerTimer =>
        \A i \in DOMAIN drawers :
            (drawers[i].display # "none") <=> SelectionResolves(i)
\* A preference is persisted and reading it does not throw.
PreferenceReadable == Truthy(stored) /\ canRead

\* C21 (as claimed): whenever a preference is persisted and readable, the
\* applied theme equals it, storage failures included.
C21_AppliedIsPersistedAsClaimed ==
    (tmPc = "ready" /\ PreferenceReadable) =>
        (dataTheme = stored /\ currentTheme = stored)

\* The applied theme equals the persisted preference whenever that one is
\* readable, unless a read or a write of the preference has thrown and no
\* write has succeeded since.
AppliedIsPersisted ==
    (tmPc = "ready" /\ ~failedSinceWrite /\ PreferenceReadable) =>
        (dataTheme = stored /\ currentTheme = stored)

\* A setTheme (or a click on a theme control) with a theme of the enumeration
\* whose write throws applies the requested theme and leaves the persisted
\* value as it was.
ThrowingWriteApplies ==
    (/\ lastOp'.op \in {"setTheme", "themeClick"}
     /\ ValidTheme(RequestedTheme')
     /\ ~canWrite) =>
        /\ dataTheme' = RequestedTheme'
        /\ currentTheme' = RequestedTheme'
        /\ stored' = stored

\* A read that throws, at construction or in the OS scheme listener, applies
\* the theme the OS signal indicates.
ThrowingReadFollowsOS ==
    /\ (lastOp'.op = "ThemeManager" /\ ~canRead) =>
           (dataTheme' = GetSystemTheme /\ currentTheme' = GetSystemTheme)
    /\ (lastOp'.op = "schemeChange" /\ tmPc = "ready" /\ ~canRead) =>
           (dataTheme' = SchemeTheme(osDark') /\ currentTheme' = dataTheme')

\* C21 (amended): in every reachable state in which a preference is persisted
\* and readable, the applied theme equals it, for any sequence of setTheme
\* calls, OS scheme changes and storage failures, unless a read or a write of
\* the preference has thrown and no write has succeeded since. A throwing
\* write applies the requested theme and keeps the persisted value; a
\* throwing read applies the theme of the OS signal.
C21_AppliedIsPersisted ==
    /\ []AppliedIsPersisted
    /\ [][ThrowingWriteApplies /\ ThrowingReadFollowsOS]_vars

\* A setTheme whose write succeeded: the persisted preference was replaced
\* and equals the applied theme, whatever has thrown before.
C21_Witness ==
    /\ lastOp.op = "setTheme"
    /\ lastOp.arg = "dark"
    /\ ~failedSinceWrite
    /\ PreferenceReadable
    /\ canWrite
    /\ stored = "dark"
    /\ dataTheme = "dark"
    /\ ~osDark

\* A setTheme whose write threw: the applied theme differs from the readable
\* persisted preference.
C21_WitnessThrowingWrite ==
    /\ lastOp.op = "setTheme"
    /\ lastOp.arg = "dark"
    /\ failedSinceWrite
    /\ PreferenceReadable
    /\ stored = "light"
    /\ dataTheme = "dark"
====
